---- MODULE Spec2Model ----
(***************************************************************************)
(* Model of the file organiser: filename-similarity grouping and the       *)
(* classification flows (content_classifier.py, data_processing.py), the   *)
(* operation planner compute_operations and the executor                   *)
(* execute_operations (data_processing.py).                                *)
(*                                                                         *)
(* Strings are sequences of one-character strings, so that basename,       *)
(* splitext, the "_<counter>" suffix and difflib's matching are computed   *)
(* on characters as the code computes them.                                *)
(***************************************************************************)
EXTENDS Integers, Sequences, FiniteSets, TLC

VARIABLES
    \* ---- group_similar_filenames (content_classifier.py) ----
    file_paths,     \* the argument: a sequence of paths
    threshold,      \* the argument, in tenths (7 is 0.7)
    groups,         \* the returned list of groups (lists of paths)
    group_pos,      \* history: the input position of every member of every group
    gpc,            \* "input" before the call, "done" after it
    \* ---- classification flows ----
    cl_flow,        \* which flow ran: "none", "grouped", "image", "text"
    cl_inputs,      \* the files handed to the flow
    cl_outcomes,    \* what the model did on each call of the flow
    cl_results,     \* the list of records returned (<<>> when it raised)
    cl_raised,      \* TRUE when an exception left the flow
    \* ---- planner and executor ----
    fs_dirs,        \* directories that exist under the destination roots
    fs_entries,     \* directory entries (files, links) that exist at destination paths
    fs_blocked,     \* directory paths occupied by a regular file
    src_kind,       \* for each source "file" or "dir"
    src_dev,        \* for each source the device it is on (st_dev)
    src_gone,       \* sources that have vanished
    renamed_files,  \* PlanningState.renamed_files
    processed_files,\* PlanningState.processed_files
    all_ops,        \* every operation returned so far, in order (history)
    all_recs,       \* the record each operation of all_ops was planned from (history)
    env_steps,      \* how many changes other programs made to the filesystem (history)
    last            \* what the last call was, with its arguments and outcome

vars == <<file_paths, threshold, groups, group_pos, gpc, cl_flow, cl_inputs, cl_outcomes, cl_results, cl_raised, fs_dirs, fs_entries, fs_blocked, src_kind, src_dev, src_gone, renamed_files, processed_files, all_ops, all_recs, env_steps, last>>

groupVars == <<file_paths, threshold, groups, group_pos, gpc>>
classifyVars == <<cl_flow, cl_inputs, cl_outcomes, cl_results, cl_raised>>
planVars == <<fs_dirs, fs_entries, fs_blocked, src_kind, src_dev, src_gone, renamed_files, processed_files, all_ops, all_recs, env_steps, last>>

\* ------------------------------------------------------------------------
\* Strings
\* ------------------------------------------------------------------------

\* The None of the code.
Null == <<"None">>

\* Index of the last occurrence of character c in s, 0 when there is none (str.rfind + 1).
RECURSIVE RFind(_, _, _)
RFind(s, c, i) == IF i = 0 THEN 0 ELSE IF s[i] = c THEN i ELSE RFind(s, c, i - 1)

\* os.path.basename: what follows the last "/".
Basename(path) == SubSeq(path, RFind(path, "/", Len(path)) + 1, Len(path))

\* os.path.dirname: what precedes the last "/".
Dirname(path) == SubSeq(path, 1, RFind(path, "/", Len(path)) - 1)

\* ------------------------------------------------------------------------
\* difflib.SequenceMatcher(None, a, b).ratio()
\* (no junk; the autojunk heuristic only applies to strings of 200 or more
\*  characters, beyond every name here)
\* ------------------------------------------------------------------------

\* Length of the common run of a from i and b from j, inside a[..ahi] and b[..bhi].
RECURSIVE RunLen(_, _, _, _, _, _)
RunLen(a, b, i, j, ahi, bhi) == IF i > ahi \/ j > bhi \/ a[i] # b[j] THEN 0 ELSE 1 + RunLen(a, b, i + 1, j + 1, ahi, bhi)

\* find_longest_match(alo, ahi, blo, bhi): the longest matching block <<i, j, k>> of
\* a[alo..ahi] and b[blo..bhi]; among the longest the one starting earliest in a, and
\* among those the one starting earliest in b. k = 0 when nothing matches.
FindLongestMatch(a, b, alo, ahi, blo, bhi) ==
    LET cands == {<<i, j>> : i \in alo..ahi, j \in blo..bhi}
        len(c) == RunLen(a, b, c[1], c[2], ahi, bhi)
        best == {c \in cands : \A d \in cands : len(c) > len(d) \/ (len(c) = len(d) /\ (c[1] < d[1] \/ (c[1] = d[1] /\ c[2] <= d[2])))}
    IN  IF cands = {} THEN <<alo, blo, 0>>
        ELSE LET c == CHOOSE x \in best : TRUE IN <<c[1], c[2], len(c)>>

\* get_matching_blocks: the total size of the blocks found by taking the longest match
\* and recursing on the pieces to its left and to its right.
RECURSIVE MatchCount(_, _, _, _, _, _)
MatchCount(a, b, alo, ahi, blo, bhi) ==
    LET m == FindLongestMatch(a, b, alo, ahi, blo, bhi)
    IN  IF m[3] = 0 THEN 0
        ELSE m[3] + MatchCount(a, b, alo, m[1] - 1, blo, m[2] - 1) + MatchCount(a, b, m[1] + m[3], ahi, m[2] + m[3], bhi)

\* ratio() >= th/10, where ratio() is 2.0 * matches / (len(a) + len(b)) and 1.0 when
\* both strings are empty.
RatioAtLeast(a, b, th) ==
    LET total == Len(a) + Len(b)
    IN  IF total = 0 THEN 10 >= th ELSE 2 * MatchCount(a, b, 1, Len(a), 1, Len(b)) * 10 >= th * total

\* ------------------------------------------------------------------------
\* group_similar_filenames (content_classifier.py)
\* ------------------------------------------------------------------------

\* A slip of the inner loop: the candidate is compared with the member added last
\* instead of the seed (transitive chaining).
RECURSIVE InnerLoopChained(_, _, _, _, _, _)
InnerLoopChained(fps, th, i, j, assigned, group) ==
    IF j > Len(fps) THEN <<assigned, group>>
    ELSE IF ~assigned[j] /\ RatioAtLeast(Basename(fps[group[Len(group)]]), Basename(fps[j]), th)
         THEN InnerLoopChained(fps, th, i, j + 1, [assigned EXCEPT ![j] = TRUE], Append(group, j))
         ELSE InnerLoopChained(fps, th, i, j + 1, assigned, group)

\* A slip of the inner loop: assigned[j] is not set when j joins the group.
RECURSIVE InnerLoopNoMark(_, _, _, _, _, _)
InnerLoopNoMark(fps, th, i, j, assigned, group) ==
    IF j > Len(fps) THEN <<assigned, group>>
    ELSE IF ~assigned[j] /\ RatioAtLeast(Basename(fps[i]), Basename(fps[j]), th)
         THEN InnerLoopNoMark(fps, th, i, j + 1, assigned, Append(group, j))
         ELSE InnerLoopNoMark(fps, th, i, j + 1, assigned, group)

\* The inner loop, for j in range(i + 1, len(filenames)): positions j that are not
\* assigned and whose basename is similar enough to the seed's join the group.
\* The group holds positions; the caller turns them into file_paths[...].
RECURSIVE InnerLoop(_, _, _, _, _, _)
InnerLoop(fps, th, i, j, assigned, group) ==
    IF j > Len(fps) THEN <<assigned, group>>
    ELSE IF ~assigned[j] /\ RatioAtLeast(Basename(fps[i]), Basename(fps[j]), th)
         THEN InnerLoop(fps, th, i, j + 1, [assigned EXCEPT ![j] = TRUE], Append(group, j))
         ELSE InnerLoop(fps, th, i, j + 1, assigned, group)

\* The outer loop, for i, fname in enumerate(filenames).
RECURSIVE OuterLoop(_, _, _, _, _)
OuterLoop(fps, th, i, assigned, gs) ==
    IF i > Len(fps) THEN gs
    ELSE IF assigned[i] THEN OuterLoop(fps, th, i + 1, assigned, gs)
         ELSE LET r == InnerLoop(fps, th, i, i + 1, [assigned EXCEPT ![i] = TRUE], <<i>>)
              IN  OuterLoop(fps, th, i + 1, r[1], Append(gs, r[2]))

\* The groups as lists of input positions.
GroupPositions(fps, th) == OuterLoop(fps, th, 1, [k \in 1..Len(fps) |-> FALSE], <<>>)

\* The returned value: each group lists file_paths[position].
group_similar_filenames(fps, th) ==
    LET gs == GroupPositions(fps, th)
    IN  [g \in 1..Len(gs) |-> [k \in 1..Len(gs[g]) |-> fps[gs[g][k]]]]

\* ------------------------------------------------------------------------
\* Inputs of the grouping specification
\* ------------------------------------------------------------------------

\* Longest input list.
MaxPaths == 3

\* Paths: same basename in two directories, a chain aa ~ ab ~ bb at 0.5, a pair at
\* exactly 0.8, and a path with an empty basename.
PathSet == { <<"x", "/", "a", "a">>, <<"y", "/", "a", "a">>, <<"x", "/", "a", "b">>, <<"b", "b">>, <<"a", "b", "c", "d", "1">>, <<"x", "/", "a", "b", "c", "d", "2">>, <<"x", "/">> }

\* Thresholds in tenths; 7 is the default of group_similar_filenames and 8 the value
\* classify_by_filename_grouped passes.
ThresholdSet == {0, 5, 7, 8, 10}

SeqsUpTo(S, n) == UNION {[1..k -> S] : k \in 0..n}

GroupIdle == file_paths = <<>> /\ threshold = 0 /\ groups = <<>> /\ group_pos = <<>> /\ gpc = "idle"
ClassifyIdle == cl_flow = "none" /\ cl_inputs = <<>> /\ cl_outcomes = <<>> /\ cl_results = <<>> /\ cl_raised = FALSE
PlanIdle == fs_dirs = {} /\ fs_entries = {} /\ fs_blocked = {} /\ src_kind = <<>> /\ src_dev = <<>> /\ src_gone = {} /\ renamed_files = {} /\ processed_files = {} /\ all_ops = <<>> /\ all_recs = <<>> /\ env_steps = 0 /\ last = [call |-> "none"]

InitGroup ==
    /\ file_paths \in SeqsUpTo(PathSet, MaxPaths)
    /\ threshold \in ThresholdSet
    /\ groups = <<>>
    /\ group_pos = <<>>
    /\ gpc = "input"
    /\ ClassifyIdle
    /\ PlanIdle

\* The call group_similar_filenames(file_paths, threshold).
Group ==
    /\ gpc = "input"
    /\ groups' = group_similar_filenames(file_paths, threshold)
    /\ group_pos' = GroupPositions(file_paths, threshold)
    /\ gpc' = "done"
    /\ UNCHANGED <<file_paths, threshold>>
    /\ UNCHANGED classifyVars
    /\ UNCHANGED planVars

NextGroup == Group

SpecGroup == InitGroup /\ [][NextGroup]_vars

\* ------------------------------------------------------------------------
\* Properties of group_similar_filenames
\* ------------------------------------------------------------------------

\* How often path p occurs in the list s, and in the groups gs.
CountIn(s, p) == Cardinality({k \in 1..Len(s) : s[k] = p})
CountInGroups(gs, p) == Cardinality({gk \in UNION {{<<g, k>> : k \in 1..Len(gs[g])} : g \in 1..Len(gs)} : gs[gk[1]][gk[2]] = p})
PathsOf(gs) == UNION {{gs[g][k] : k \in 1..Len(gs[g])} : g \in 1..Len(gs)}

\* C7: for every input list and every threshold in [0, 1] the returned groups are an
\* exact partition of the input: no group is empty, every path occurs in the groups as
\* often as in the input (so the union of the groups is the input set) and no path is in
\* two different groups.
C7_Partition ==
    gpc = "done" =>
        /\ \A g \in 1..Len(groups) : Len(groups[g]) > 0
        /\ \A p \in PathSet \cup PathsOf(groups) : CountInGroups(groups, p) = CountIn(file_paths, p)
        /\ \A g, h \in 1..Len(groups) : g # h => PathsOf(<<groups[g]>>) \cap PathsOf(<<groups[h]>>) = {}

\* A call on a list that repeats a path and yields several groups, one of them with
\* several members.
C7_Witness ==
    /\ gpc = "done"
    /\ Len(groups) >= 2
    /\ \E g \in 1..Len(groups) : Len(groups[g]) >= 2
    /\ \E k, m \in 1..Len(file_paths) : k # m /\ file_paths[k] = file_paths[m]
    /\ threshold > 0

SimilarAt(i, j) == RatioAtLeast(Basename(file_paths[i]), Basename(file_paths[j]), threshold)
InGroup(g, j) == \E k \in 1..Len(group_pos[g]) : group_pos[g][k] = j

\* C10: grouping is seed-relative. Position j joins the group seeded at i < j exactly
\* when j is in no earlier group and basename(j) is similar enough to basename(i), the
\* seed; groups come in the order of their seeds, each lists its seed first and its
\* members in input order; and for an input A, B, C with sim(A,B) >= t, sim(B,C) >= t
\* and sim(A,C) < t the result is [[A, B], [C]].
C10_SeedRelative ==
    gpc = "done" =>
        /\ Len(groups) = Len(group_pos)
        /\ \A g \in 1..Len(group_pos) :
            /\ Len(group_pos[g]) > 0
            /\ groups[g] = [k \in 1..Len(group_pos[g]) |-> file_paths[group_pos[g][k]]]
            /\ \A k \in 1..Len(group_pos[g]) - 1 : group_pos[g][k] < group_pos[g][k + 1]
            /\ g > 1 => group_pos[g - 1][1] < group_pos[g][1]
            /\ \A j \in 1..Len(file_paths) : j > group_pos[g][1] =>
                (InGroup(g, j) <=> ((\A e \in 1..g - 1 : ~InGroup(e, j)) /\ SimilarAt(group_pos[g][1], j)))
        /\ (Len(file_paths) = 3 /\ SimilarAt(1, 2) /\ SimilarAt(2, 3) /\ ~SimilarAt(1, 3)) =>
            groups = << <<file_paths[1], file_paths[2]>>, <<file_paths[3]>> >>

\* The call on A, B, C with A ~ B, B ~ C and A not similar to C.
C10_Witness ==
    /\ gpc = "done"
    /\ Len(file_paths) = 3
    /\ SimilarAt(1, 2) /\ SimilarAt(2, 3) /\ ~SimilarAt(1, 3)
    /\ Len(groups) = 2

\* ------------------------------------------------------------------------
\* Paths and names used by the planner
\* ------------------------------------------------------------------------

\* os.path.join(a, b).
Join(a, b) ==
    IF Len(b) > 0 /\ b[1] = "/" THEN b
    ELSE IF Len(a) = 0 \/ a[Len(a)] = "/" THEN a \o b
    ELSE a \o <<"/">> \o b

\* First index in lo..hi - 1 whose character is not ".", 0 when there is none.
RECURSIVE FirstNonDot(_, _, _)
FirstNonDot(p, lo, hi) == IF lo >= hi THEN 0 ELSE IF p[lo] # "." THEN lo ELSE FirstNonDot(p, lo + 1, hi)

\* os.path.splitext(p)[1]: from the last "." of the last component, unless only dots
\* precede it there.
SplitextExt(p) ==
    LET sepIndex == RFind(p, "/", Len(p))
        dotIndex == RFind(p, ".", Len(p))
    IN  IF dotIndex > sepIndex /\ FirstNonDot(p, sepIndex + 1, dotIndex) # 0 THEN SubSeq(p, dotIndex, Len(p)) ELSE <<>>

\* str(n) for n >= 0.
RECURSIVE Str(_)
Str(n) ==
    LET digit == <<"0", "1", "2", "3", "4", "5", "6", "7", "8", "9">>[(n % 10) + 1]
    IN  IF n < 10 THEN <<digit>> ELSE Append(Str(n \div 10), digit)

\* ------------------------------------------------------------------------
\* The filesystem
\* ------------------------------------------------------------------------

\* The sources. SrcA is a regular file on the destination's device; SrcB is a directory
\* on device 1 or 2, or a regular file on device 2.
SrcA == <<"a", ".", "t">>
SrcB == <<"i", "n", "/", "b", ".", "t">>
Sources == {SrcA, SrcB}
Kinds == {"file", "dir"}
Devices == {1, 2}
SrcKind(p) == src_kind[p]
SrcDev(p) == src_dev[p]

\* The destination root (new_path), on device 1.
RootR == <<"r">>
Roots == {RootR}
\* st_dev of a directory under the root.
DirDev(d) == 1

\* An entry of fs_entries: a path and, for a symbolic link, the path it points to
\* (Null for a regular file or a hard link).
Entry(path, target) == [path |-> path, target |-> target]

\* os.path.lexists: something is at the path.
PathPresent(p) == p \in fs_dirs \/ p \in fs_blocked \/ \E e \in fs_entries : e.path = p

\* os.path.exists: follows symbolic links, so a link whose target is missing or has
\* vanished is reported as not existing.
PathExists(p) == p \in fs_dirs \/ p \in fs_blocked \/ \E e \in fs_entries : e.path = p /\ (e.target = Null \/ (e.target \in Sources /\ e.target \notin src_gone))

\* os.path.isdir(file_path) for a source.
IsDir(p) == p \notin src_gone /\ SrcKind(p) = "dir"

\* ------------------------------------------------------------------------
\* compute_operations (data_processing.py)
\* ------------------------------------------------------------------------

\* A metadata record; a key that is None or absent holds Null (reading an absent key
\* raises KeyError, using None in the name or the path raises TypeError).
Record(fp, folder, name) == [file_path |-> fp, foldername |-> folder, filename |-> name]

Operation(src, dst, lt, folder, name) == [source |-> src, destination |-> dst, link_type |-> lt, folder_name |-> folder, new_file_name |-> name]

\* A slip of the duplicate loop: only the filesystem is consulted, not renamed_files.
RECURSIVE HandleDuplicatesFsOnly(_, _, _, _, _, _)
HandleDuplicatesFsOnly(filename, ext, dir_path, new_file_name, counter, renamed) ==
    LET new_file_path == Join(dir_path, new_file_name)
    IN  IF PathExists(new_file_path)
        THEN HandleDuplicatesFsOnly(filename, ext, dir_path, filename \o <<"_">> \o Str(counter) \o ext, counter + 1, renamed)
        ELSE <<new_file_name, new_file_path>>

\* A slip of the duplicate loop: the suffix is appended to the previous candidate
\* instead of the record's filename.
RECURSIVE HandleDuplicatesStacked(_, _, _, _, _, _)
HandleDuplicatesStacked(filename, ext, dir_path, new_file_name, counter, renamed) ==
    LET new_file_path == Join(dir_path, new_file_name)
    IN  IF new_file_path \in renamed \/ PathExists(new_file_path)
        THEN HandleDuplicatesStacked(filename, ext, dir_path, SubSeq(new_file_name, 1, Len(new_file_name) - Len(ext)) \o <<"_">> \o Str(counter) \o ext, counter + 1, renamed)
        ELSE <<new_file_name, new_file_path>>

\* The while loop of "Handle duplicates": <<new_file_name, new_file_path>> when it ends.
RECURSIVE HandleDuplicates(_, _, _, _, _, _)
HandleDuplicates(filename, ext, dir_path, new_file_name, counter, renamed) ==
    LET new_file_path == Join(dir_path, new_file_name)
    IN  IF new_file_path \in renamed \/ PathExists(new_file_path)
        THEN HandleDuplicates(filename, ext, dir_path, filename \o <<"_">> \o Str(counter) \o ext, counter + 1, renamed)
        ELSE <<new_file_name, new_file_path>>

\* A slip of the link decision: the devices are compared before the directory test.
LinkTypeDevicesFirst(file_path, new_file_path) ==
    IF SrcDev(file_path) = DirDev(Dirname(new_file_path)) THEN "hardlink" ELSE "symlink"

\* "Decide whether to use hardlink or symlink" (the source exists here).
LinkType(file_path, new_file_path) ==
    IF IsDir(file_path) THEN "symlink"
    ELSE IF SrcDev(file_path) = DirDev(Dirname(new_file_path)) THEN "hardlink" ELSE "symlink"

\* The planner's progress through one call: the two sets it mutates, the directories
\* it has created, the operations appended so far, and whether an exception ended it.
PlanState(processed, renamed, dirs, ops, raised) == [processed |-> processed, renamed |-> renamed, dirs |-> dirs, ops |-> ops, raised |-> raised]

\* The body of the for loop for one record once it is known to be new.
PlanNewRecord(data, new_path, st) ==
    LET file_path == data.file_path
        st1 == [st EXCEPT !.processed = @ \cup {file_path}]
    IN  IF data.foldername = Null \/ data.filename = Null
        THEN [st1 EXCEPT !.raised = TRUE]
        ELSE LET ext == SplitextExt(file_path)
                 dir_path == Join(new_path, data.foldername)
             IN  IF dir_path \in fs_blocked
                 THEN [st1 EXCEPT !.raised = TRUE]
                 ELSE LET st2 == [st1 EXCEPT !.dirs = @ \cup {dir_path}]
                          r == HandleDuplicates(data.filename, ext, dir_path, data.filename \o ext, 1, st2.renamed)
                      IN  IF ~IsDir(file_path) /\ file_path \in src_gone
                          THEN [st2 EXCEPT !.raised = TRUE]
                          ELSE [st2 EXCEPT !.ops = Append(@, Operation(file_path, r[2], LinkType(file_path, r[2]), data.foldername, r[1])), !.renamed = @ \cup {r[2]}]

\* A slip: the processed_files guard is missing.
PlanRecordNoGuard(data, new_path, st) == PlanNewRecord(data, new_path, st)

\* One iteration of the for loop: a record whose file_path is in processed_files is
\* skipped.
PlanRecord(data, new_path, st) ==
    IF data.file_path \in st.processed THEN st ELSE PlanNewRecord(data, new_path, st)

\* The for loop; an exception ends it.
RECURSIVE PlanLoop(_, _, _, _)
PlanLoop(data_list, k, new_path, st) ==
    IF k > Len(data_list) \/ st.raised THEN st
    ELSE PlanLoop(data_list, k + 1, new_path, PlanRecord(data_list[k], new_path, st))

\* compute_operations(data_list, new_path, renamed_files, processed_files).
compute_operations(data_list, new_path) ==
    PlanLoop(data_list, 1, new_path, PlanState(processed_files, renamed_files, fs_dirs, <<>>, FALSE))

\* ------------------------------------------------------------------------
\* execute_operations (data_processing.py)
\* ------------------------------------------------------------------------

\* The message built for one operation: "Dry run: would create ...", "Created ..." or
\* "Error creating ...". It is printed, or appended to the log file in silent mode.
Message(kind, op) == [kind |-> kind, link_type |-> op.link_type, source |-> op.source, destination |-> op.destination]

\* The executor's progress through one call.
ExecState(dirs, entries, results, raised) == [dirs |-> dirs, entries |-> entries, results |-> results, raised |-> raised]

\* os.link(source, destination) fails: the source is gone or is a directory, or
\* something is at the destination.
LinkFails(op, st) ==
    \/ op.source \in src_gone
    \/ SrcKind(op.source) = "dir"
    \/ op.destination \in st.dirs \cup fs_blocked
    \/ \E e \in st.entries : e.path = op.destination

\* os.symlink(source, destination) fails: something is at the destination.
SymlinkFails(op, st) ==
    \/ op.destination \in st.dirs \cup fs_blocked
    \/ \E e \in st.entries : e.path = op.destination

\* The try block: create the link, or catch the exception and report it.
TryLink(op, st) ==
    IF op.link_type = "hardlink"
    THEN IF LinkFails(op, st)
         THEN [st EXCEPT !.results = Append(@, Message("error", op))]
         ELSE [st EXCEPT !.entries = @ \cup {Entry(op.destination, Null)}, !.results = Append(@, Message("created", op))]
    ELSE IF SymlinkFails(op, st)
         THEN [st EXCEPT !.results = Append(@, Message("error", op))]
         ELSE [st EXCEPT !.entries = @ \cup {Entry(op.destination, op.source)}, !.results = Append(@, Message("created", op))]

\* The body of the for loop: os.makedirs(dir_path, exist_ok=True) comes first and is
\* outside the try block; it raises when a regular file is at dir_path.
ExecOne(op, dry_run, st) ==
    LET dir_path == Dirname(op.destination)
    IN  IF dir_path \in fs_blocked THEN [st EXCEPT !.raised = TRUE]
        ELSE LET st1 == [st EXCEPT !.dirs = @ \cup {dir_path}]
             IN  IF dry_run THEN [st1 EXCEPT !.results = Append(@, Message("dry", op))]
                 ELSE TryLink(op, st1)

\* The for loop; an exception ends it.
RECURSIVE ExecLoop(_, _, _, _)
ExecLoop(operations, k, dry_run, st) ==
    IF k > Len(operations) \/ st.raised THEN st
    ELSE ExecLoop(operations, k + 1, dry_run, ExecOne(operations[k], dry_run, st))

\* execute_operations(operations, dry_run).
execute_operations(operations, dry_run) ==
    ExecLoop(operations, 1, dry_run, ExecState(fs_dirs, fs_entries, <<>>, FALSE))

\* ------------------------------------------------------------------------
\* The planner and executor specification
\* ------------------------------------------------------------------------

\* Longest data_list handed to one compute_operations call.
MaxBatch == 2
\* How many changes other programs make to the filesystem in one behaviour.
MaxEnv == 1

FolderA == <<"A">>
NameF == <<"f">>
NameF1 == <<"f", "_", "1">>

\* The metadata of a record: classified, or unclassified as returned by
\* classify_by_filename_grouped (no filename; the folder name may be None).
Metadata == {<<FolderA, NameF>>, <<FolderA, Null>>, <<Null, Null>>}
Records == {Record(fp, m[1], m[2]) : fp \in Sources, m \in Metadata}
DataLists == UNION {[1..k -> Records] : k \in 1..MaxBatch}

\* Where other programs create files and block directories.
ExternalPaths == {Join(Join(RootR, FolderA), NameF \o <<".", "t">>), Join(Join(RootR, FolderA), NameF1 \o <<".", "t">>)}
ExternalDirs == {Join(RootR, FolderA)}
\* The target of a dangling symbolic link.
NoTarget == <<"n", "o", "n", "e">>

InitPlan ==
    /\ GroupIdle
    /\ ClassifyIdle
    /\ fs_dirs = {} /\ fs_entries = {} /\ fs_blocked = {}
    /\ src_kind \in {f \in [Sources -> Kinds] : f[SrcA] = "file"}
    /\ src_dev \in {f \in [Sources -> Devices] : f[SrcA] = 1}
    /\ src_kind[SrcB] = "dir" \/ src_dev[SrcB] = 2
    /\ src_gone = {}
    /\ renamed_files = {} /\ processed_files = {}
    /\ all_ops = <<>> /\ all_recs = <<>>
    /\ env_steps = 0
    /\ last = [call |-> "none"]

\* A record without a folder name or without a filename.
Unclassified(data) == data.foldername = Null \/ data.filename = Null

\* The first record of data_list for the source src: the one an operation comes from.
RecordOf(data_list, src) == data_list[CHOOSE k \in 1..Len(data_list) : data_list[k].file_path = src /\ \A m \in 1..k - 1 : data_list[m].file_path # src]

\* The sources of data_list that are not in processed_files and whose record has a
\* folder name and a filename.
ClassifiedNew(data_list) == {data_list[k].file_path : k \in {m \in 1..Len(data_list) : data_list[m].file_path \notin processed_files /\ ~Unclassified(RecordOf(data_list, data_list[m].file_path))}}

\* A call of compute_operations on the shared PlanningState. When it raises, the
\* caller gets no list; what it did to the two sets and the directories stays.
Plan(data_list, new_path) ==
    LET st == compute_operations(data_list, new_path)
    IN  /\ processed_files' = st.processed
        /\ renamed_files' = st.renamed
        /\ fs_dirs' = st.dirs
        /\ all_ops' = IF st.raised THEN all_ops ELSE all_ops \o st.ops
        /\ all_recs' = IF st.raised THEN all_recs ELSE all_recs \o [n \in 1..Len(st.ops) |-> RecordOf(data_list, st.ops[n].source)]
        /\ last' = [call |-> "plan", new_path |-> new_path, raised |-> st.raised, unclassified |-> \E k \in 1..Len(data_list) : Unclassified(data_list[k]), returned |-> IF st.raised THEN 0 ELSE Len(st.ops), classified_new |-> Cardinality(ClassifiedNew(data_list))]
        /\ UNCHANGED <<fs_entries, fs_blocked, src_kind, src_dev, src_gone, env_steps>>
        /\ UNCHANGED groupVars
        /\ UNCHANGED classifyVars

\* A call of execute_operations on operations the planner returned.
Execute(operations, dry_run) ==
    LET st == execute_operations(operations, dry_run)
    IN  /\ fs_dirs' = st.dirs
        /\ fs_entries' = st.entries
        /\ last' = [call |-> "execute", operations |-> operations, dry_run |-> dry_run, results |-> st.results, raised |-> st.raised]
        /\ UNCHANGED <<fs_blocked, src_kind, src_dev, src_gone, renamed_files, processed_files, all_ops, all_recs, env_steps>>
        /\ UNCHANGED groupVars
        /\ UNCHANGED classifyVars

\* A source file or directory is removed.
SourceVanish(s) ==
    /\ env_steps < MaxEnv
    /\ s \notin src_gone
    /\ src_gone' = src_gone \cup {s}
    /\ env_steps' = env_steps + 1
    /\ last' = [call |-> "env"]
    /\ UNCHANGED <<fs_dirs, fs_entries, fs_blocked, src_kind, src_dev, renamed_files, processed_files, all_ops, all_recs>>
    /\ UNCHANGED groupVars
    /\ UNCHANGED classifyVars

\* Another program creates a regular file, or a symbolic link to a path that does not
\* exist, (and its directory) under the destination root.
ExternalCreate(p, target) ==
    /\ env_steps < MaxEnv
    /\ ~PathPresent(p)
    /\ Dirname(p) \notin fs_blocked
    /\ fs_entries' = fs_entries \cup {Entry(p, target)}
    /\ fs_dirs' = fs_dirs \cup {Dirname(p)}
    /\ env_steps' = env_steps + 1
    /\ last' = [call |-> "env"]
    /\ UNCHANGED <<fs_blocked, src_kind, src_dev, src_gone, renamed_files, processed_files, all_ops, all_recs>>
    /\ UNCHANGED groupVars
    /\ UNCHANGED classifyVars

\* Another program removes an empty destination directory.
ExternalRmdir(d) ==
    /\ env_steps < MaxEnv
    /\ d \in fs_dirs
    /\ \A e \in fs_entries : Dirname(e.path) # d
    /\ fs_dirs' = fs_dirs \ {d}
    /\ env_steps' = env_steps + 1
    /\ last' = [call |-> "env"]
    /\ UNCHANGED <<fs_entries, fs_blocked, src_kind, src_dev, src_gone, renamed_files, processed_files, all_ops, all_recs>>
    /\ UNCHANGED groupVars
    /\ UNCHANGED classifyVars

\* Another program puts a regular file where a destination directory is (still
\* empty) or would go.
ExternalBlock(d) ==
    /\ env_steps < MaxEnv
    /\ d \notin fs_blocked
    /\ \A e \in fs_entries : Dirname(e.path) # d
    /\ fs_blocked' = fs_blocked \cup {d}
    /\ fs_dirs' = fs_dirs \ {d}
    /\ env_steps' = env_steps + 1
    /\ last' = [call |-> "env"]
    /\ UNCHANGED <<fs_entries, src_kind, src_dev, src_gone, renamed_files, processed_files, all_ops, all_recs>>
    /\ UNCHANGED groupVars
    /\ UNCHANGED classifyVars

Next ==
    \/ \E data_list \in DataLists, new_path \in Roots : Plan(data_list, new_path)
    \/ \E i \in 1..Len(all_ops), dry_run \in BOOLEAN : Execute(SubSeq(all_ops, i, Len(all_ops)), dry_run)
    \/ \E s \in Sources : SourceVanish(s)
    \/ \E p \in ExternalPaths, target \in {Null, NoTarget} : ExternalCreate(p, target)
    \/ \E d \in fs_dirs : ExternalRmdir(d)
    \/ \E d \in ExternalDirs : ExternalBlock(d)

Spec == InitPlan /\ [][Next]_vars

\* ------------------------------------------------------------------------
\* Properties of compute_operations
\* ------------------------------------------------------------------------

\* The operations a step adds to all_ops: those the call returned.
NewOps == Len(all_ops) + 1..Len(all_ops')

C2_AtMostOnePerSource ==
    [][/\ \A i, j \in 1..Len(all_ops') : i # j => all_ops'[i].source # all_ops'[j].source
       /\ \A n \in NewOps : all_ops'[n].source \notin processed_files
       /\ Cardinality(renamed_files' \ renamed_files) <= Cardinality(processed_files' \ processed_files)
       /\ (processed_files' = processed_files => (renamed_files' = renamed_files /\ all_ops' = all_ops))]_vars

\* A call whose records were all planned before: it returns nothing.
C2_Witness ==
    /\ last.call = "plan" /\ ~last.raised /\ last.returned = 0
    /\ Len(all_ops) = 2
    /\ processed_files = Sources

\* C8: the destination is <filename><ext> when that path is free and otherwise
\* <filename>_<k><ext> for the smallest k >= 1 whose path is free, free meaning neither
\* in renamed_files nor existing on the filesystem; new_file_name is the last
\* component of the destination.
C8_CollisionResolution ==
    [][\A n \in NewOps :
        LET op == all_ops'[n]
            rec == all_recs'[n]
            ext == SplitextExt(op.source)
            dir_path == Join(last'.new_path, rec.foldername)
            taken(p) == p \in renamed_files \/ PathExists(p) \/ \E m \in NewOps : m < n /\ all_ops'[m].destination = p
            cand(k) == Join(dir_path, IF k = 0 THEN rec.filename \o ext ELSE rec.filename \o <<"_">> \o Str(k) \o ext)
        IN  /\ rec.file_path = op.source
            /\ op.folder_name = rec.foldername
            /\ op.new_file_name = Basename(op.destination)
            /\ \E k \in 0..Cardinality(renamed_files) + Cardinality(fs_entries) + Len(all_ops') :
                /\ op.destination = cand(k)
                /\ ~taken(cand(k))
                /\ \A c \in 0..k - 1 : taken(cand(c))]_vars

\* f.t exists on the filesystem and f_1.t was planned before, so the record is planned
\* to f_2.t.
C8_Witness ==
    /\ last.call = "plan"
    /\ \E e \in fs_entries : e.path = Join(Join(RootR, FolderA), NameF \o <<".", "t">>) /\ e.target = Null /\ e.path \notin renamed_files
    /\ Len(all_ops) = 2
    /\ all_ops[1].new_file_name = NameF \o <<"_", "1", ".", "t">>
    /\ all_ops[2].new_file_name = NameF \o <<"_", "2", ".", "t">>

\* C9: a planned operation is a symlink when its source is a directory, whatever the
\* devices; otherwise a hardlink exactly when the source and the destination
\* directory are on the same device.
C9_LinkType ==
    \A n \in 1..Len(all_ops) :
        LET op == all_ops[n]
        IN  /\ op.link_type \in {"hardlink", "symlink"}
            /\ src_kind[op.source] = "dir" => op.link_type = "symlink"
            /\ src_kind[op.source] # "dir" => (op.link_type = "hardlink" <=> src_dev[op.source] = DirDev(Dirname(op.destination)))

\* A directory on the destination's device planned as a symlink, next to a hardlink.
C9_Witness ==
    /\ \E n \in 1..Len(all_ops) : src_kind[all_ops[n].source] = "dir" /\ src_dev[all_ops[n].source] = DirDev(Dirname(all_ops[n].destination)) /\ all_ops[n].link_type = "symlink"
    /\ \E n \in 1..Len(all_ops) : all_ops[n].link_type = "hardlink"

\* C5: a call whose data_list holds a record without folder name or filename does not
\* raise and returns an operation for every other new record (nothing else being in
\* the way: no source gone, no directory blocked).
C5_SkipsUnclassified ==
    (last.call = "plan" /\ last.unclassified /\ src_gone = {} /\ fs_blocked = {}) =>
        (~last.raised /\ last.returned = last.classified_new)

\* ------------------------------------------------------------------------
\* Properties of execute_operations
\* ------------------------------------------------------------------------

\* C3: a dry run changes nothing on the filesystem, no link and no directory being
\* created even when the destination directory is not there, and reports one "would
\* create" result per operation (no regular file being in a directory's place).
C3_DryRunNoMutation ==
    [][(last'.call = "execute" /\ last'.dry_run /\ fs_blocked = {}) =>
        /\ fs_dirs' = fs_dirs
        /\ fs_entries' = fs_entries
        /\ ~last'.raised
        /\ Len(last'.results) = Len(last'.operations)
        /\ \A k \in 1..Len(last'.results) : last'.results[k].kind = "dry"]_vars

\* C4: no exception leaves execute_operations, and every operation of the list gets a
\* result, a failure being reported for its own operation only.
C4_FailureIsolation ==
    last.call = "execute" =>
        /\ ~last.raised
        /\ Len(last.results) = Len(last.operations)
        /\ \A k \in 1..Len(last.results) : last.results[k].destination = last.operations[k].destination

\* ------------------------------------------------------------------------
\* clean_category (content_classifier.py)
\* A text is a sequence of characters; a Hangul syllable is written by its
\* romanisation ("mun" "seo" is the two-character word for "document").
\* ------------------------------------------------------------------------

HangulChars == {"dap", "byeon", "eul", "ip", "ryeok", "ha", "se", "yo", "pa", "il", "i", "reum", "chul", "ye", "si", "gi", "ta", "al", "su", "eop", "eum", "mo", "mun", "seo"}
SpaceChars == {" ", "\t", "\n"}
\* ASCII and full-width colon.
ColonChars == {":", "FWCOLON"}
\* The double quote and the four curly quotes.
QuoteChars == {"\"", "LDQUO", "RDQUO", "LSQUO", "RSQUO"}
\* \ / : * ? " < > |
ReservedChars == {"\\", "/", ":", "*", "?", "\"", "<", ">", "|"}

RECURSIVE LStrip(_)
LStrip(t) == IF Len(t) > 0 /\ t[1] \in SpaceChars THEN LStrip(Tail(t)) ELSE t
RECURSIVE RStrip(_)
RStrip(t) == IF Len(t) > 0 /\ t[Len(t)] \in SpaceChars THEN RStrip(SubSeq(t, 1, Len(t) - 1)) ELSE t
\* str.strip()
Strip(t) == RStrip(LStrip(t))

\* split("\n")[0]
RECURSIVE FirstLine(_)
FirstLine(t) == IF Len(t) = 0 \/ t[1] = "\n" THEN <<>> ELSE <<t[1]>> \o FirstLine(Tail(t))

StartsWith(t, p) == Len(t) >= Len(p) /\ SubSeq(t, 1, Len(p)) = p

\* re.sub(r"^<p>[:：]?\s*", "", line)
SubPrefix(line, p) ==
    IF ~StartsWith(line, p) THEN line
    ELSE LET rest == SubSeq(line, Len(p) + 1, Len(line))
             rest1 == IF Len(rest) > 0 /\ rest[1] \in ColonChars THEN Tail(rest) ELSE rest
         IN  LStrip(rest1)

RemoveChars(t, cs) == SelectSeq(t, LAMBDA c : c \notin cs)

PrefixAnswer == <<"dap", "byeon">>
PrefixEnterAnswer == <<"dap", "eul", " ", "ip", "ryeok", "ha", "se", "yo">>
PrefixFileName == <<"pa", "il", " ", "i", "reum">>
PrefixOutput == <<"chul", "ryeok">>
PrefixExampleOutput == <<"ye", "si", " ", "chul", "ryeok">>
\* "other", "cannot know", "don't know", "unknown"
BannedLabels == {<<"gi", "ta">>, <<"al", " ", "su", " ", "eop", "eum">>, <<"mo", "reum">>, <<"u", "n", "k", "n", "o", "w", "n">>}

\* The label, or Null for None. The third substitution of the code only matches a text
\* starting with the two surrogate halves of the folder glyph, which no text here
\* does; str.lower() changes none of the characters used here.
clean_category(raw_text) ==
    LET line0 == FirstLine(Strip(raw_text))
        line1 == SubPrefix(line0, PrefixAnswer)
        line2 == SubPrefix(line1, PrefixEnterAnswer)
        line4 == SubPrefix(line2, PrefixFileName)
        line5 == SubPrefix(line4, PrefixOutput)
        line6 == SubPrefix(line5, PrefixExampleOutput)
        line7 == RemoveChars(line6, QuoteChars)
        line == RemoveChars(line7, ReservedChars)
    IN  IF ~\E k \in 1..Len(line) : line[k] \in HangulChars THEN Null
        ELSE IF Len(line) = 0 \/ line \in BannedLabels \/ Len(Strip(line)) < 2 THEN Null
        ELSE Strip(line)

\* ------------------------------------------------------------------------
\* classify_by_filename_grouped (content_classifier.py)
\* ------------------------------------------------------------------------

\* What one model call does: it raises, it returns a response without
\* ["choices"][0]["text"], or it returns a text.
Raises == <<"raise">>
Malformed == <<"malformed">>

\* The try block around the model call: any exception gives category None.
CategoryOf(outcome) == IF outcome = Raises \/ outcome = Malformed THEN Null ELSE clean_category(outcome)

\* One record per path of the group, all with the group's category.
GroupRecords(group, category) == [k \in 1..Len(group) |-> [file_path |-> group[k], foldername |-> category]]

\* The loop over the groups; outcomes[g] is what the model does on the g-th call.
RECURSIVE GroupedLoop(_, _, _, _)
GroupedLoop(grouped_files, outcomes, g, results) ==
    IF g > Len(grouped_files) THEN results
    ELSE GroupedLoop(grouped_files, outcomes, g + 1, results \o GroupRecords(grouped_files[g], CategoryOf(outcomes[g])))

\* classify_by_filename_grouped(file_paths, model): <<results, raised>>.
classify_by_filename_grouped(fps, outcomes) ==
    <<GroupedLoop(group_similar_filenames(fps, 8), outcomes, 1, <<>>), FALSE>>

\* ------------------------------------------------------------------------
\* process_image_files and process_text_files (data_processing.py)
\* Here a text is a sequence of words, and a file is a record of its directory, stem
\* and extension, so that splitext(basename(path))[0] is its stem.
\* ------------------------------------------------------------------------

File(dir, stem, ext) == [dir |-> dir, stem |-> stem, ext |-> ext]

\* The words the code treats as no answer for a filename and for a category.
GenericFilenames == {<<>>, <<"untitled">>, <<"unknown">>, <<"describes">>}
GenericFoldernames == {<<>>, <<"untitled">>, <<"unknown">>}
\* The echoed prompt label and the markdown the code strips from an answer.
StrippedWords == {"Filename:", "Category:", "*", "BACKTICK"}
\* Words sanitize_filename leaves nothing of.
UnsafeWords == {"#"}
\* The English stop words of nltk that occur in the descriptions here.
StopWords == {"a", "the", "of"}

\* sanitize_filename (file_utils): what is left of a name that is safe in a filename.
sanitize_filename(name) == SelectSeq(name, LAMBDA w : w \notin UnsafeWords)

\* The answer with the label and the markdown removed.
CleanAnswer(text) == SelectSeq(text, LAMBDA w : w \notin StrippedWords)

\* FreqDist(filtered_words).most_common(1): the most frequent word that is no stop
\* word, the earliest one among equals; <<>> when there is none.
MostCommon(description) ==
    LET words == SelectSeq(description, LAMBDA w : w \notin StopWords)
        count(w) == Cardinality({k \in 1..Len(words) : words[k] = w})
        first(w) == CHOOSE k \in 1..Len(words) : words[k] = w /\ \A m \in 1..k - 1 : words[m] # w
    IN  IF Len(words) = 0 THEN <<>>
        ELSE <<CHOOSE w \in {words[k] : k \in 1..Len(words)} : \A v \in {words[k] : k \in 1..Len(words)} : count(w) > count(v) \/ (count(w) = count(v) /\ first(w) <= first(v))>>

\* generate_image_metadata / generate_text_metadata: the model is called for the
\* description, the filename and the folder name; prefix and default are "image" and
\* "images", or "document" and "documents". No call is inside a try block, so the first
\* call that raises ends the function with that exception.
generate_metadata(file, outcomes, prefix, default) ==
    IF outcomes[1] \in {Raises, Malformed} \/ outcomes[2] \in {Raises, Malformed} \/ outcomes[3] \in {Raises, Malformed} THEN [raised |-> TRUE]
    ELSE LET description == outcomes[1]
             filename0 == CleanAnswer(outcomes[2])
             filename == IF filename0 \in GenericFilenames THEN SubSeq(description, 1, IF Len(description) < 3 THEN Len(description) ELSE 3) ELSE filename0
             sanitized0 == sanitize_filename(filename)
             sanitized_filename == IF sanitized0 \in {<<>>, <<"untitled">>} THEN <<prefix, file.stem>> ELSE sanitized0
             foldername0 == CleanAnswer(outcomes[3])
             foldername == IF foldername0 \in GenericFoldernames THEN (IF MostCommon(description) # <<>> THEN MostCommon(description) ELSE <<default>>) ELSE foldername0
             sanitized1 == sanitize_filename(foldername)
             sanitized_foldername == IF sanitized1 = <<>> THEN <<default>> ELSE sanitized1
         IN  [raised |-> FALSE, data |-> [file_path |-> file, foldername |-> sanitized_foldername, filename |-> sanitized_filename, description |-> description]]

\* The loop of process_image_files / process_text_files; outcomes[k] are the three
\* model calls for the k-th file. <<results, raised>>: an exception ends the loop and
\* leaves the function, and the caller gets no list.
RECURSIVE ProcessLoop(_, _, _, _, _, _)
ProcessLoop(files, outcomes, k, prefix, default, data_list) ==
    IF k > Len(files) THEN <<data_list, FALSE>>
    ELSE LET r == generate_metadata(files[k], outcomes[k], prefix, default)
         IN  IF r.raised THEN <<<<>>, TRUE>>
             ELSE ProcessLoop(files, outcomes, k + 1, prefix, default, Append(data_list, r.data))

process_image_files(image_paths, outcomes) == ProcessLoop(image_paths, outcomes, 1, "image", "images", <<>>)
process_text_files(text_tuples, outcomes) == ProcessLoop(text_tuples, outcomes, 1, "document", "documents", <<>>)

\* ------------------------------------------------------------------------
\* The classification specification
\* ------------------------------------------------------------------------

\* Longest list of files handed to a classification flow.
MaxFiles == 2

\* Names for the grouped flow: two that are similar at 0.8 and one that is not.
GroupedPaths == {<<"a", "b", "c", "d", "1">>, <<"x", "/", "a", "b", "c", "d", "2">>, <<"b", "b">>}
\* What the model answers with in the grouped flow: "answer: document", "other", an
\* ASCII word, nothing.
GroupedOutcomes == {Raises, Malformed, <<"dap", "byeon", ":", " ", "mun", "seo">>, <<"gi", "ta">>, <<"a", "b", "c">>, <<>>}

\* Files and model answers for the per-file flows.
ContentFiles == {File("in", "p", ".png"), File("in", "q", ".png")}
DescriptionOutcomes == {Raises, <<>>, <<"a", "rose", "of", "rose">>}
AnswerOutcomes == {Raises, Malformed, <<>>, <<"unknown">>, <<"#">>, <<"Filename:", "red", "rose">>}
FileOutcomes == {<<d, f, c>> : d \in DescriptionOutcomes, f \in AnswerOutcomes, c \in AnswerOutcomes}

InitClassify ==
    /\ GroupIdle
    /\ PlanIdle
    /\ cl_flow = "none"
    /\ cl_inputs = <<>>
    /\ cl_outcomes = <<>>
    /\ cl_results = <<>>
    /\ cl_raised = FALSE

ClassifyGrouped(fps, outcomes) ==
    /\ cl_flow = "none"
    /\ cl_flow' = "grouped"
    /\ cl_inputs' = fps
    /\ cl_outcomes' = outcomes
    /\ cl_results' = classify_by_filename_grouped(fps, outcomes)[1]
    /\ cl_raised' = classify_by_filename_grouped(fps, outcomes)[2]
    /\ UNCHANGED groupVars
    /\ UNCHANGED planVars

ProcessImages(files, outcomes) ==
    /\ cl_flow = "none"
    /\ cl_flow' = "image"
    /\ cl_inputs' = files
    /\ cl_outcomes' = outcomes
    /\ cl_results' = process_image_files(files, outcomes)[1]
    /\ cl_raised' = process_image_files(files, outcomes)[2]
    /\ UNCHANGED groupVars
    /\ UNCHANGED planVars

ProcessTexts(files, outcomes) ==
    /\ cl_flow = "none"
    /\ cl_flow' = "text"
    /\ cl_inputs' = files
    /\ cl_outcomes' = outcomes
    /\ cl_results' = process_text_files(files, outcomes)[1]
    /\ cl_raised' = process_text_files(files, outcomes)[2]
    /\ UNCHANGED groupVars
    /\ UNCHANGED planVars

\* A flow is called once; the test of cl_flow stands before the choice of its inputs.
NextClassify ==
    \/ /\ cl_flow = "none"
       /\ \E n \in 0..MaxFiles : \E fps \in [1..n -> GroupedPaths], outcomes \in [1..n -> GroupedOutcomes] : ClassifyGrouped(fps, outcomes)
    \/ /\ cl_flow = "none"
       /\ \E n \in 0..MaxFiles : \E files \in [1..n -> ContentFiles], outcomes \in [1..n -> FileOutcomes] : ProcessImages(files, outcomes)
    \/ /\ cl_flow = "none"
       /\ \E n \in 0..MaxFiles : \E files \in [1..n -> ContentFiles], outcomes \in [1..n -> FileOutcomes] : ProcessTexts(files, outcomes)

SpecClassify == InitClassify /\ [][NextClassify]_vars

\* C6: in every classification flow a model call that raises or answers with unusable
\* text is absorbed: no exception reaches the caller and the result has exactly one
\* record per input file, in input order, with a null or fallback label where the
\* model failed.
C6_FailuresAbsorbed ==
    cl_flow # "none" =>
        /\ ~cl_raised
        /\ Len(cl_results) = Len(cl_inputs)
        /\ \A p \in {cl_inputs[k] : k \in 1..Len(cl_inputs)} : Cardinality({k \in 1..Len(cl_results) : cl_results[k].file_path = p}) = Cardinality({k \in 1..Len(cl_inputs) : cl_inputs[k] = p})

\* The part of C6 that the code keeps: classify_by_filename_grouped absorbs every
\* failure of the model and returns one record per input file.
GroupedFlowAbsorbs ==
    cl_flow = "grouped" =>
        /\ ~cl_raised
        /\ Len(cl_results) = Len(cl_inputs)
        /\ \A p \in {cl_inputs[k] : k \in 1..Len(cl_inputs)} : Cardinality({k \in 1..Len(cl_results) : cl_results[k].file_path = p}) = Cardinality({k \in 1..Len(cl_inputs) : cl_inputs[k] = p})

====
